---- MODULE Spec2Model ----
(***************************************************************************)
(* Model of fleet's `build-systems` command                                 *)
(* (cmds/fleet/src/cmds/build_systems.rs): the per-host task                *)
(* BuildSystems::build_task, the generation inspector                       *)
(* get_current_generation, the dispatcher BuildSystems::run and the exit    *)
(* code of main (cmds/fleet/src/main.rs).                                  *)
(*                                                                         *)
(* A task is a coroutine on tokio's single-threaded LocalSet: once polled it *)
(* runs until the next command it awaits.  One step of a task is therefore  *)
(* one poll: the command it was suspended on returns, the task handles the  *)
(* outcome, runs its synchronous code and starts the next command, which    *)
(* is appended to the host's log as "pending".  Tasks of different hosts    *)
(* interleave between polls.                                                *)
(***************************************************************************)
EXTENDS Integers, Sequences, FiniteSets, TLC

\* ------------------------------------------------------------------ bounds
\* Number of hosts config.list_hosts() returns.
NumHosts == 2

\* Longest generation listing handed to the inspector on its own.
MaxListingLines == 3

Hosts == 1..NumHosts

\* ------------------------------------------------------- program constants
\* `Err(e) if tries < 3` : the number of retries of nix copy.
MaxCopyRetries == 3
\* `sleep(Duration::from_millis(5000))`
CopyRetryDelayMs == 5000

\* ------------------------------------------------------------- subcommands
Subcommands == {"Upload", "Test", "Boot", "Switch", "SdImage", "InstallationCd"}

\* impl From<Subcommand> for Action
ActionFrom(s) ==
    CASE s = "Upload"         -> [kind |-> "Upload",  action |-> "None"]
      [] s = "Test"           -> [kind |-> "Upload",  action |-> "Test"]
      [] s = "Boot"           -> [kind |-> "Upload",  action |-> "Boot"]
      [] s = "Switch"         -> [kind |-> "Upload",  action |-> "Switch"]
      [] s = "SdImage"        -> [kind |-> "Package", action |-> "SdImage"]
      [] s = "InstallationCd" -> [kind |-> "Package", action |-> "InstallationCd"]

\* UploadAction::name
name(a) ==
    CASE a = "Test"   -> "test"
      [] a = "Boot"   -> "boot"
      [] a = "Switch" -> "switch"

\* should_switch_profile also matching Test.
should_switch_profile_Test(a) == a \in {"Switch", "Boot", "Test"}

\* UploadAction::should_switch_profile
should_switch_profile(a) == a \in {"Switch", "Boot"}

\* UploadAction::should_activate
should_activate(a) == a \in {"Switch", "Test"}

\* should_schedule_rollback_run matching Switch alone.
should_schedule_rollback_run_SwitchOnly(a) == a = "Switch"

\* UploadAction::should_schedule_rollback_run
should_schedule_rollback_run(a) == a \in {"Switch", "Test"}

\* Action::build_attr / PackageAction::build_attr
build_attr(act) ==
    IF act.kind = "Upload" THEN "toplevel"
    ELSE IF act.action = "SdImage" THEN "sdImage" ELSE "installationCd"

\* ------------------------------------------------------------------- state
VARIABLES
    subcommand,        \* self.subcommand
    disable_rollback,  \* self.disable_rollback
    fail_fast,         \* self.fail_fast
    privileged_build,  \* self.privileged_build
    is_local,          \* config.is_local(host), per host
    should_skip,       \* config.should_skip(host), per host
    hosts,             \* run: the list config.list_hosts() returned
    runPc,             \* main and run: "main", "list_hosts", "spawn", "await",
                       \* "done" (run returned), "exited", "killed"
    runResult,         \* run: "none" until it returns, then "Ok" or "Err"
    idx,               \* run: position of the for loop in hosts
    spawned,           \* run: the hosts whose task is in the LocalSet
    errors,            \* run: hosts of error!("failed to deploy host")
    exit,              \* main: "none" until the process exits, then its code
    saved,             \* main: "none" until config.save() returns, then "ok"/"err"
    pc,                \* task: position of build_task, per host
    failed,            \* task: the local `failed`
    tries,             \* task: the local `tries`
    built,             \* task: the local `built`: "<out>", then "<built>"
    generation,        \* task: the local `generation`
    log,               \* task: commands awaited so far, with their outcomes
    result,            \* task: "none" until build_task returns, then "Ok"/"Err"
    marker,            \* host: /etc/fleet_rollback_marker: "none", "old", "new"
    runTimer,          \* host: rollback-watchdog-run.timer: "none", "armed", "fired"
    rolledBack,        \* host: rollback-watchdog.service reverted the profile
    listing,           \* inspector: the stdout handed to get_current_generation
    inspected          \* inspector: what it returned for `listing`

\* ---------------------------------------------------------------- commands
\* A command is its program, its argument vector, whether it runs under sudo
\* on the host, and the number the program formats into it (the generation id
\* in the marker command, the delay of a sleep; NoNum when there is none).
\* "<out>", "<built>" and "<host>" stand for the temporary out-link, the
\* canonicalized store path and the host name of the task issuing it.
NoNum == -1

Cmd(prog, args, sudo, num) ==
    [prog |-> prog, args |-> args, sudo |-> sudo, num |-> num]

\* nix build ... --out-link <tempdir> <attr>   (run_nix, on the driver)
NixBuildCmd(act) ==
    Cmd("nix", <<"build", "--impure", "--json", "--no-link", "--option",
                 "log-lines", "200", "--out-link", "<out>",
                 "buildSystems", build_attr(act), "<host>">>,
        privileged_build, NoNum)

\* nix copy --substitute-on-destination --to ssh://root@<host> <built>
NixCopyCmd ==
    Cmd("nix", <<"copy", "--substitute-on-destination", "--to",
                 "ssh://root@<host>", "<built>">>, FALSE, NoNum)

\* tokio::time::sleep between two copy attempts
SleepCmd == Cmd("sleep", <<>>, FALSE, CopyRetryDelayMs)

\* nix-env --profile /nix/var/nix/profiles/system --list-generations
ListGenerationsCmd ==
    Cmd("nix-env", <<"--profile", "/nix/var/nix/profiles/system",
                     "--list-generations">>, TRUE, NoNum)

\* sh -c 'mark=$(mktemp ...) && echo -n <id> > $mark && mv --no-clobber ...'
WriteMarkerCmd(id) ==
    Cmd("sh", <<"-c", "mktemp -p /etc -t fleet_rollback_marker.XXXXX",
                "echo -n <id>", "mv --no-clobber",
                "/etc/fleet_rollback_marker">>, TRUE, id)

\* systemd-run --on-active 3min --unit rollback-watchdog-run systemctl start ...
ScheduleWatchdogCmd ==
    Cmd("systemd-run", <<"--on-active", "3min", "--unit",
                         "rollback-watchdog-run", "systemctl", "start",
                         "rollback-watchdog.service">>, TRUE, NoNum)

\* nix-env --profile /nix/var/nix/profiles/system --set <built>
SetProfileCmd ==
    Cmd("nix-env", <<"--profile", "/nix/var/nix/profiles/system",
                     "--set", "<built>">>, TRUE, NoNum)

\* <built>/bin/switch-to-configuration <name>
ActivateCmd(a) ==
    Cmd("<built>/bin/switch-to-configuration", <<name(a)>>, TRUE, NoNum)

\* systemctl start rollback-watchdog.service
StartRollbackServiceCmd ==
    Cmd("systemctl", <<"start", "rollback-watchdog.service">>, TRUE, NoNum)

\* rm -f /etc/fleet_rollback_marker
RemoveMarkerCmd ==
    Cmd("rm", <<"-f", "/etc/fleet_rollback_marker">>, TRUE, NoNum)

\* systemctl stop rollback-watchdog.timer
StopTimerCmd ==
    Cmd("systemctl", <<"stop", "rollback-watchdog.timer">>, TRUE, NoNum)

\* systemctl stop rollback-watchdog-run.timer
StopRunTimerCmd ==
    Cmd("systemctl", <<"stop", "rollback-watchdog-run.timer">>, TRUE, NoNum)

\* nix build --impure --no-link --out-link <cwd>/<prefix>-<host> <attr>
PackageBuildCmd(p) ==
    Cmd("nix", <<"build", "--impure", "--no-link", "--out-link",
                 IF p = "SdImage" THEN "sd-image-<host>"
                                  ELSE "installation-cd-<host>",
                 "buildSystems",
                 IF p = "SdImage" THEN "sdImage" ELSE "installationCd",
                 "<host>">>
               \o (IF fail_fast THEN <<>> ELSE <<"--keep-going">>),
        privileged_build, NoNum)

\* --------------------------------------------------- generation inspector
\* A listing is the stdout of --list-generations: a sequence of lines, each
\* the sequence of its whitespace-separated tokens (an empty line has none).
\* str::parse::<u32> on the tokens the listings below are made of: the value,
\* or NoNum where parse() returns Err.
ParseU32(tok) ==
    CASE tok = "17"         -> 17
      [] tok = "41"         -> 41
      [] tok = "42"         -> 42
      [] tok = "4294967296" -> NoNum     \* u32::MAX + 1: overflow
      [] OTHER              -> NoNum

\* The body of the filter_map closure: the Generation of a line, or None.
NoGeneration == [id |-> NoNum, current |-> FALSE, datetime |-> <<>>]

ParseGeneration(g) ==
    IF Len(g) < 1 THEN NoGeneration
    ELSE IF ParseU32(g[1]) = NoNum THEN NoGeneration
    ELSE IF Len(g) < 3 THEN NoGeneration
    ELSE IF Len(g) >= 4 /\ g[4] # "(current)" THEN NoGeneration
    ELSE [id |-> ParseU32(g[1]),
          current |-> Len(g) >= 4,
          datetime |-> <<g[2], g[3]>>]

\* .filter(|&l| l != "").filter_map(...).collect()
RECURSIVE Generations(_)
Generations(data) ==
    IF data = <<>> THEN <<>>
    ELSE LET g == Head(data)
             rest == Generations(Tail(data))
         IN IF g = <<>> THEN rest
            ELSE IF ParseGeneration(g) = NoGeneration THEN rest
            ELSE <<ParseGeneration(g)>> \o rest

\* .into_iter().filter(|g| g.current)
RECURSIVE CurrentOnes(_)
CurrentOnes(gens) ==
    IF gens = <<>> THEN <<>>
    ELSE IF Head(gens).current THEN <<Head(gens)>> \o CurrentOnes(Tail(gens))
    ELSE CurrentOnes(Tail(gens))

\* get_current_generation taking the first generation marked current when
\* there are several.
get_current_generation_FirstCurrent(out) ==
    IF ~out.ok
      THEN [ok |-> FALSE, error |-> "command failed", gen |-> NoGeneration]
    ELSE LET cur == CurrentOnes(Generations(out.data))
         IN IF Len(cur) = 0
              THEN [ok |-> FALSE, error |-> "failed to find generation",
                    gen |-> NoGeneration]
            ELSE [ok |-> TRUE, error |-> "", gen |-> cur[1]]

\* get_current_generation on the outcome of run_string_on, [ok, data]: data
\* is the listing the command printed when ok.
get_current_generation(out) ==
    IF ~out.ok
      THEN [ok |-> FALSE, error |-> "command failed", gen |-> NoGeneration]
    ELSE LET cur == CurrentOnes(Generations(out.data))
         IN IF Len(cur) > 1
              THEN [ok |-> FALSE, error |-> "bad list-generations output",
                    gen |-> NoGeneration]
            ELSE IF Len(cur) = 0
              THEN [ok |-> FALSE, error |-> "failed to find generation",
                    gen |-> NoGeneration]
            ELSE [ok |-> TRUE, error |-> "", gen |-> cur[1]]

\* The listings a host may print.
Listings ==
    { <<<<"41", "2023-12-31", "11:00:00">>,
        <<"42", "2024-01-01", "12:00:00", "(current)">>>>,
      <<<<"abc", "2023-12-31", "11:00:00", "(current)">>, <<>>,
        <<"42", "2024-01-01", "12:00:00", "(current)", "extra">>>>,
      <<<<"41", "2023-12-31", "11:00:00", "(current)">>,
        <<"42", "2024-01-01", "12:00:00", "(current)">>>>,
      <<<<"41", "2023-12-31", "11:00:00">>,
        <<"4294967296", "2024-01-01", "12:00:00", "(current)">>>>,
      <<<<"42", "2024-01-01", "12:00:00", "(old)">>>>,
      <<>> }

\* What run_string_on may return for the listing command.
ListingOutcomes ==
    {[ok |-> FALSE, data |-> <<>>]} \cup {[ok |-> TRUE, data |-> l] : l \in Listings}

\* ------------------------------------------------------------ state groups
cfgVars == <<subcommand, disable_rollback, fail_fast, privileged_build,
             is_local, should_skip>>
runVars == <<hosts, runPc, runResult, idx, spawned>>
hostVars == <<marker, runTimer, rolledBack>>
probeVars == <<listing, inspected>>
mainVars == <<exit, saved>>
vars == <<subcommand, disable_rollback, fail_fast, privileged_build, is_local,
          should_skip, hosts, runPc, runResult, idx, spawned, errors, exit,
          saved, pc,
          failed, tries, built, generation, log, result, marker, runTimer,
          rolledBack, listing, inspected>>

\* let action = Action::from(self.subcommand.clone())
action == ActionFrom(subcommand)

\* The value `action` is bound to inside `if let Some(action) = action`.
mode == action.action

\* config.list_hosts(): the hosts in the order of the configuration.
HostList == [i \in 1..NumHosts |-> i]

\* What get_current_generation has returned while it was not called.
NotInspected == [ok |-> FALSE, error |-> "not called", gen |-> NoGeneration]

\* The process has just started: main has done nothing yet.
Fresh ==
    /\ hosts = <<>>
    /\ runPc = "main"
    /\ runResult = "none"
    /\ idx = 1
    /\ spawned = {}
    /\ errors = {}
    /\ exit = "none"
    /\ saved = "none"
    /\ pc = [h \in Hosts |-> "unspawned"]
    /\ failed = [h \in Hosts |-> FALSE]
    /\ tries = [h \in Hosts |-> 0]
    /\ built = [h \in Hosts |-> "unset"]
    /\ generation = [h \in Hosts |-> NoGeneration]
    /\ log = [h \in Hosts |-> <<>>]
    /\ result = [h \in Hosts |-> "none"]
    /\ runTimer = [h \in Hosts |-> "none"]
    /\ rolledBack = [h \in Hosts |-> FALSE]
    /\ inspected = NotInspected

\* A fleet of NumHosts hosts none of which carries a marker, deployed with
\* --fail-fast and --privileged-build at their defaults.
Init ==
    /\ subcommand \in Subcommands
    /\ disable_rollback \in BOOLEAN
    /\ fail_fast = FALSE
    /\ privileged_build = FALSE
    /\ is_local \in [Hosts -> BOOLEAN]
    /\ should_skip \in [Hosts -> BOOLEAN]
    /\ marker = [h \in Hosts |-> "none"]
    /\ listing = <<>>
    /\ Fresh

\* ----------------------------------------------------------- task plumbing
\* The steps of the `if let Some(action)` block in program order, and the
\* condition under which a step is executed, given the value of `failed`.
UploadSteps == <<"inspect", "marker", "sched", "setprofile", "activate",
                 "finalize", "stop_timer", "stop_run_timer">>

\* StepRuns with the activation no longer gated on `failed`.
StepRuns_ActivateUngated(step, f) ==
    CASE step = "inspect"        -> ~disable_rollback
      [] step = "marker"         -> ~disable_rollback
      [] step = "sched"          -> ~disable_rollback /\ should_schedule_rollback_run(mode)
      [] step = "setprofile"     -> should_switch_profile(mode) /\ ~f
      [] step = "activate"       -> should_activate(mode)
      [] step = "finalize"       -> ~disable_rollback
      [] step = "stop_timer"     -> ~disable_rollback
      [] step = "stop_run_timer" -> ~disable_rollback /\ should_schedule_rollback_run(mode)

\* StepRuns with the watchdog scheduling gated on `failed` as well.
StepRuns_SchedGated(step, f) ==
    CASE step = "inspect"        -> ~disable_rollback
      [] step = "marker"         -> ~disable_rollback
      [] step = "sched"          -> ~disable_rollback /\ should_schedule_rollback_run(mode) /\ ~f
      [] step = "setprofile"     -> should_switch_profile(mode) /\ ~f
      [] step = "activate"       -> should_activate(mode) /\ ~f
      [] step = "finalize"       -> ~disable_rollback
      [] step = "stop_timer"     -> ~disable_rollback
      [] step = "stop_run_timer" -> ~disable_rollback /\ should_schedule_rollback_run(mode)

\* StepRuns with Finalize outside `if !self.disable_rollback`.
StepRuns_FinalizeUnguarded(step, f) ==
    CASE step = "inspect"        -> ~disable_rollback
      [] step = "marker"         -> ~disable_rollback
      [] step = "sched"          -> ~disable_rollback /\ should_schedule_rollback_run(mode)
      [] step = "setprofile"     -> should_switch_profile(mode) /\ ~f
      [] step = "activate"       -> should_activate(mode) /\ ~f
      [] step = "finalize"       -> TRUE
      [] step = "stop_timer"     -> ~disable_rollback
      [] step = "stop_run_timer" -> ~disable_rollback /\ should_schedule_rollback_run(mode)

StepRuns(step, f) ==
    CASE step = "inspect"        -> ~disable_rollback
      [] step = "marker"         -> ~disable_rollback
      [] step = "sched"          -> ~disable_rollback /\ should_schedule_rollback_run(mode)
      [] step = "setprofile"     -> should_switch_profile(mode) /\ ~f
      [] step = "activate"       -> should_activate(mode) /\ ~f
      [] step = "finalize"       -> ~disable_rollback
      [] step = "stop_timer"     -> ~disable_rollback
      [] step = "stop_run_timer" -> ~disable_rollback /\ should_schedule_rollback_run(mode)

\* The first step after position i whose condition holds; "DONE" (the final
\* Ok(())) when none is left.
RECURSIVE NextStep(_, _)
NextStep(i, f) ==
    IF i >= Len(UploadSteps) THEN "DONE"
    ELSE IF StepRuns(UploadSteps[i + 1], f) THEN UploadSteps[i + 1]
    ELSE NextStep(i + 1, f)

\* Where build_task goes when the copy loop is left (or skipped):
\* `if let Some(action) = action { let mut failed = false; ... }`.
AfterUpload ==
    IF mode = "None" THEN "DONE" ELSE NextStep(0, FALSE)

\* AfterBuild with the copy loop skipped for every host.
AfterBuild_NoCopy(h) ==
    IF action.kind = "Package" THEN "pkg_build"
    ELSE AfterUpload

\* AfterBuild with the `if let Some(action)` block inside `if !is_local`.
AfterBuild_LocalUploadOnly(h) ==
    IF action.kind = "Package" THEN "pkg_build"
    ELSE IF ~is_local[h] THEN "copy"
    ELSE "DONE"

\* AfterBuild with a package taking the arm of an upload.
AfterBuild_PackageAsUpload(h) ==
    IF ~is_local[h] THEN "copy"
    ELSE AfterUpload

\* `match action` after the build.
AfterBuild(h) ==
    IF action.kind = "Package" THEN "pkg_build"
    ELSE IF ~is_local[h] THEN "copy"
    ELSE AfterUpload

\* CommandAt with the disarm started where Finalize belongs, and Finalize
\* after it.
CommandAt_DisarmFirst(p, f, g) ==
    CASE p = "build"          -> NixBuildCmd(action)
      [] p = "copy"           -> NixCopyCmd
      [] p = "sleep"          -> SleepCmd
      [] p = "inspect"        -> ListGenerationsCmd
      [] p = "marker"         -> WriteMarkerCmd(g.id)
      [] p = "sched"          -> ScheduleWatchdogCmd
      [] p = "setprofile"     -> SetProfileCmd
      [] p = "activate"       -> ActivateCmd(mode)
      [] p = "finalize"       -> StopTimerCmd
      [] p = "stop_timer"     -> IF f THEN StartRollbackServiceCmd ELSE RemoveMarkerCmd
      [] p = "stop_run_timer" -> StopRunTimerCmd
      [] p = "pkg_build"      -> PackageBuildCmd(action.action)

\* CommandAt with the activation started where the profile belongs, and the
\* profile set after it.
CommandAt_ActivateFirst(p, f, g) ==
    CASE p = "build"          -> NixBuildCmd(action)
      [] p = "copy"           -> NixCopyCmd
      [] p = "sleep"          -> SleepCmd
      [] p = "inspect"        -> ListGenerationsCmd
      [] p = "marker"         -> WriteMarkerCmd(g.id)
      [] p = "sched"          -> ScheduleWatchdogCmd
      [] p = "setprofile"     -> ActivateCmd(mode)
      [] p = "activate"       -> SetProfileCmd
      [] p = "finalize"       -> IF f THEN StartRollbackServiceCmd ELSE RemoveMarkerCmd
      [] p = "stop_timer"     -> StopTimerCmd
      [] p = "stop_run_timer" -> StopRunTimerCmd
      [] p = "pkg_build"      -> PackageBuildCmd(action.action)

\* The command build_task starts at position p, `failed` being f and
\* `generation` g.
CommandAt(p, f, g) ==
    CASE p = "build"          -> NixBuildCmd(action)
      [] p = "copy"           -> NixCopyCmd
      [] p = "sleep"          -> SleepCmd
      [] p = "inspect"        -> ListGenerationsCmd
      [] p = "marker"         -> WriteMarkerCmd(g.id)
      [] p = "sched"          -> ScheduleWatchdogCmd
      [] p = "setprofile"     -> SetProfileCmd
      [] p = "activate"       -> ActivateCmd(mode)
      [] p = "finalize"       -> IF f THEN StartRollbackServiceCmd ELSE RemoveMarkerCmd
      [] p = "stop_timer"     -> StopTimerCmd
      [] p = "stop_run_timer" -> StopRunTimerCmd
      [] p = "pkg_build"      -> PackageBuildCmd(action.action)

\* The log of h once the command it is suspended on has returned r.
Returned(h, r) == [log[h] EXCEPT ![Len(log[h])].res = r]

\* The last command of the log l, with its outcome; NoEntry before the first.
NoEntry == [cmd |-> Cmd("", <<>>, FALSE, NoNum), res |-> "none"]

LastOf(l) == IF l = <<>> THEN NoEntry ELSE l[Len(l)]

\* /etc/fleet_rollback_marker of a host once the command of entry e has
\* returned: `mv --no-clobber` puts the new marker in place unless one is
\* there, and never replaces one; `rm -f` removes whichever is there.  A command
\* that returned Err has changed nothing.  Whether a move that was skipped
\* for an existing marker ends the shell command with a failure status is up
\* to the host's mv (GNU mv -n exits 0 before coreutils 9.2): run_on may
\* return Ok or Err in that case, and the marker stays the old one in both.
MarkerAfter(m, e) ==
    IF e.res # "ok" THEN m
    ELSE IF e.cmd.prog = "sh" THEN (IF m = "none" THEN "new" ELSE m)
    ELSE IF e.cmd = RemoveMarkerCmd THEN "none"
    ELSE m

\* rollback-watchdog-run.timer of a host once the command of entry e has
\* returned: systemd-run arms it, systemctl stop removes it.
RunTimerAfter(t, e) ==
    IF e.res # "ok" THEN t
    ELSE IF e.cmd = ScheduleWatchdogCmd THEN "armed"
    ELSE IF e.cmd = StopRunTimerCmd THEN "none"
    ELSE t

\* rollback-watchdog.service, started on a host whose marker is m: it reverts
\* the profile to the generation of the marker, and does nothing without one.
WatchdogReverts(m) == m # "none"

\* Whether the host has been rolled back once the command of entry e has
\* returned: `systemctl start rollback-watchdog.service` runs the service.
RolledBackAfter(b, m, e) ==
    IF e.res = "ok" /\ e.cmd = StartRollbackServiceCmd THEN b \/ WatchdogReverts(m)
    ELSE b

\* build_task, having the log l, moves on to position p: it returns Ok(()) at
\* "DONE"; it returns Err at "FAIL", which the spawned wrapper logs as
\* "failed to deploy host"; anywhere else it starts the command of p and is
\* suspended on it.
Proceed(h, l, p, f, g) ==
    /\ pc' = [pc EXCEPT ![h] = p]
    /\ log' = [log EXCEPT ![h] =
                 IF p \in {"DONE", "FAIL"} THEN l
                 ELSE Append(l, [cmd |-> CommandAt(p, f, g), res |-> "pending"])]
    /\ result' = [result EXCEPT ![h] =
                    IF p = "DONE" THEN "Ok" ELSE IF p = "FAIL" THEN "Err" ELSE @]
    /\ errors' = IF p = "FAIL" THEN errors \cup {h} ELSE errors
    /\ marker' = [marker EXCEPT ![h] = MarkerAfter(@, LastOf(l))]
    /\ runTimer' = [runTimer EXCEPT ![h] = RunTimerAfter(@, LastOf(l))]
    /\ rolledBack' = [rolledBack EXCEPT ![h] = RolledBackAfter(@, marker[h], LastOf(l))]

\* The task of h is suspended at position p; it is polled only while run()
\* awaits the LocalSet.
Suspended(h, p) == runPc = "await" /\ h \in spawned /\ pc[h] = p

\* ------------------------------------------------------------- task steps
\* First poll: `built` is the path of tempfile::tempdir()?, then nix build
\* is started.
StartTask(h) ==
    /\ Suspended(h, "start")
    /\ \E dir \in {"ok", "err"} :
          /\ built' = [built EXCEPT ![h] = IF dir = "ok" THEN "<out>" ELSE @]
          /\ Proceed(h, log[h], IF dir = "ok" THEN "build" ELSE "FAIL",
                     failed[h], generation[h])
    /\ UNCHANGED <<cfgVars, probeVars, runVars, mainVars>>
    /\ UNCHANGED <<failed, tries, generation>>

\* nix_build.run_nix().await...?, built = std::fs::canonicalize(built)?, and
\* the `match action` up to the first command of the chosen arm (after
\* current_dir()? for a package).
Build(h) ==
    /\ Suspended(h, "build")
    /\ \E r \in {"ok", "err"}, canon \in {"ok", "err"}, cwd \in {"ok", "err"} :
          LET canonical == r = "ok" /\ canon = "ok"
              p == IF ~canonical THEN "FAIL"
                   ELSE IF action.kind = "Package" /\ cwd = "err" THEN "FAIL"
                   ELSE AfterBuild(h)
          IN /\ built' = [built EXCEPT ![h] = IF canonical THEN "<built>" ELSE @]
             /\ Proceed(h, Returned(h, r), p, failed[h], generation[h])
    /\ UNCHANGED <<cfgVars, probeVars, runVars, mainVars>>
    /\ UNCHANGED <<failed, tries, generation>>

\* Copy retrying without counting: `tries += 1` is missing.
Copy_RetryUncounted(h) ==
    /\ Suspended(h, "copy")
    /\ \/ Proceed(h, Returned(h, "ok"), AfterUpload, FALSE, generation[h])
       \/ IF tries[h] < MaxCopyRetries
            THEN Proceed(h, Returned(h, "err"), "sleep", failed[h], generation[h])
            ELSE Proceed(h, Returned(h, "err"), "FAIL", failed[h], generation[h])
    /\ UNCHANGED <<cfgVars, probeVars, runVars, mainVars>>
    /\ UNCHANGED <<failed, tries, built, generation>>

\* Copy with the retry test off by one: `tries <= 3`.
Copy_OneRetryMore(h) ==
    /\ Suspended(h, "copy")
    /\ \/ /\ Proceed(h, Returned(h, "ok"), AfterUpload, FALSE, generation[h])
          /\ UNCHANGED tries
       \/ IF tries[h] <= MaxCopyRetries
            THEN /\ tries' = [tries EXCEPT ![h] = @ + 1]
                 /\ Proceed(h, Returned(h, "err"), "sleep", failed[h], generation[h])
            ELSE /\ Proceed(h, Returned(h, "err"), "FAIL", failed[h], generation[h])
                 /\ UNCHANGED tries
    /\ UNCHANGED <<cfgVars, probeVars, runVars, mainVars>>
    /\ UNCHANGED <<failed, built, generation>>

\* The match on the result of nix copy in the retry loop.
Copy(h) ==
    /\ Suspended(h, "copy")
    /\ \/ /\ Proceed(h, Returned(h, "ok"), AfterUpload, FALSE, generation[h])
          /\ UNCHANGED tries
       \/ IF tries[h] < MaxCopyRetries
            THEN /\ tries' = [tries EXCEPT ![h] = @ + 1]
                 /\ Proceed(h, Returned(h, "err"), "sleep", failed[h], generation[h])
            ELSE /\ Proceed(h, Returned(h, "err"), "FAIL", failed[h], generation[h])
                 /\ UNCHANGED tries
    /\ UNCHANGED <<cfgVars, probeVars, runVars, mainVars>>
    /\ UNCHANGED <<failed, built, generation>>

\* sleep(Duration::from_millis(5000)).await is over: the next iteration.
CopySleep(h) ==
    /\ Suspended(h, "sleep")
    /\ Proceed(h, Returned(h, "ok"), "copy", failed[h], generation[h])
    /\ UNCHANGED <<cfgVars, probeVars, runVars, mainVars>>
    /\ UNCHANGED <<failed, tries, built, generation>>

\* let generation = get_current_generation(&config, &host).await?;
Inspect(h) ==
    /\ Suspended(h, "inspect")
    /\ \E out \in ListingOutcomes :
          LET g == get_current_generation(out) IN
          /\ generation' = [generation EXCEPT ![h] = g.gen]
          /\ Proceed(h, Returned(h, IF out.ok THEN "ok" ELSE "err"),
                     IF g.ok THEN "marker" ELSE "FAIL", failed[h], g.gen)
    /\ UNCHANGED <<cfgVars, probeVars, runVars, mainVars>>
    /\ UNCHANGED <<failed, tries, built>>

\* Latch with the Err only logged: `failed` is left as it was.
Latch_ErrOnlyLogged(h, i) ==
    \E r \in {"ok", "err"} :
       /\ failed' = failed
       /\ Proceed(h, Returned(h, r), NextStep(i, failed[h]), failed[h], generation[h])

\* A latching step at position i of UploadSteps returned: on Err failed = true.
Latch(h, i) ==
    \E r \in {"ok", "err"} :
       LET f == failed[h] \/ r = "err" IN
       /\ failed' = [failed EXCEPT ![h] = f]
       /\ Proceed(h, Returned(h, r), NextStep(i, f), f, generation[h])

\* A cleanup step at position i of UploadSteps returned: an Err is only logged.
LogOnly(h, i) ==
    \E r \in {"ok", "err"} :
       /\ UNCHANGED failed
       /\ Proceed(h, Returned(h, r), NextStep(i, failed[h]), failed[h], generation[h])

\* The marker command returned.
PlaceMarker(h) ==
    /\ Suspended(h, "marker")
    /\ Latch(h, 2)
    /\ UNCHANGED <<cfgVars, probeVars, runVars, mainVars>>
    /\ UNCHANGED <<tries, built, generation>>

\* systemd-run ... rollback-watchdog-run returned.
ScheduleRollbackRun(h) ==
    /\ Suspended(h, "sched")
    /\ Latch(h, 3)
    /\ UNCHANGED <<cfgVars, probeVars, runVars, mainVars>>
    /\ UNCHANGED <<tries, built, generation>>

\* nix-env --set returned.
SwitchProfile(h) ==
    /\ Suspended(h, "setprofile")
    /\ Latch(h, 4)
    /\ UNCHANGED <<cfgVars, probeVars, runVars, mainVars>>
    /\ UNCHANGED <<tries, built, generation>>

\* switch-to-configuration returned.
Activate(h) ==
    /\ Suspended(h, "activate")
    /\ Latch(h, 5)
    /\ UNCHANGED <<cfgVars, probeVars, runVars, mainVars>>
    /\ UNCHANGED <<tries, built, generation>>

\* systemctl start rollback-watchdog.service / rm -f marker returned.
Finalize(h) ==
    /\ Suspended(h, "finalize")
    /\ LogOnly(h, 6)
    /\ UNCHANGED <<cfgVars, probeVars, runVars, mainVars>>
    /\ UNCHANGED <<tries, built, generation>>

\* systemctl stop rollback-watchdog.timer returned.
StopTimer(h) ==
    /\ Suspended(h, "stop_timer")
    /\ LogOnly(h, 7)
    /\ UNCHANGED <<cfgVars, probeVars, runVars, mainVars>>
    /\ UNCHANGED <<tries, built, generation>>

\* systemctl stop rollback-watchdog-run.timer returned.
StopRunTimer(h) ==
    /\ Suspended(h, "stop_run_timer")
    /\ LogOnly(h, 8)
    /\ UNCHANGED <<cfgVars, probeVars, runVars, mainVars>>
    /\ UNCHANGED <<tries, built, generation>>

\* Action::Package: nix_build.run_nix().await? of the image build returned.
PackageBuild(h) ==
    /\ Suspended(h, "pkg_build")
    /\ \E r \in {"ok", "err"} :
          Proceed(h, Returned(h, r), IF r = "ok" THEN "DONE" ELSE "FAIL",
                  failed[h], generation[h])
    /\ UNCHANGED <<cfgVars, probeVars, runVars, mainVars>>
    /\ UNCHANGED <<failed, tries, built, generation>>

\* --------------------------------------------------------------- dispatcher
taskVars == <<pc, failed, tries, built, generation, log, result>>

\* main_real up to run_command: NIX_ARGS is parsed (`?`), RootOpts::parse()
\* reads the command line (clap ends the process with its usage code on an
\* error), and fleet_opts.build(nix_args).await? loads the configuration.
MainSetup ==
    /\ runPc = "main"
    /\ \E o \in {"ok", "nix_args", "cli", "config"} :
          /\ runPc' = IF o = "ok" THEN "list_hosts" ELSE "exited"
          /\ exit' = CASE o = "ok"  -> exit
                        [] o = "cli" -> "USAGE"
                        [] OTHER     -> "FAILURE"
    /\ UNCHANGED <<cfgVars, probeVars, hostVars, saved>>
    /\ UNCHANGED <<hosts, runResult, idx, spawned, errors, taskVars>>

\* let hosts = config.list_hosts().await?;
ListHosts ==
    /\ runPc = "list_hosts"
    /\ \/ /\ hosts' = HostList
          /\ runPc' = "spawn"
          /\ UNCHANGED runResult
       \/ /\ runPc' = "done"
          /\ runResult' = "Err"
          /\ UNCHANGED hosts
    /\ UNCHANGED <<cfgVars, probeVars, hostVars, mainVars>>
    /\ UNCHANGED <<idx, spawned, errors, taskVars>>

\* One iteration of `for host in hosts.iter()`: skip, or spawn_local the task.
SpawnNext ==
    /\ runPc = "spawn"
    /\ idx <= Len(hosts)
    /\ LET host == hosts[idx] IN
         IF should_skip[host]
           THEN UNCHANGED <<spawned, pc>>
           ELSE /\ spawned' = spawned \cup {host}
                /\ pc' = [pc EXCEPT ![host] = "start"]
    /\ idx' = idx + 1
    /\ UNCHANGED <<cfgVars, probeVars, hostVars, mainVars>>
    /\ UNCHANGED <<hosts, runPc, runResult, errors, failed, tries,
                   built, generation, log, result>>

\* The loop is over: set.await starts driving the tasks.
AwaitSet ==
    /\ runPc = "spawn"
    /\ idx > Len(hosts)
    /\ runPc' = "await"
    /\ UNCHANGED <<cfgVars, probeVars, hostVars, mainVars>>
    /\ UNCHANGED <<hosts, runResult, idx, spawned, errors, taskVars>>

\* RunReturns giving up on the set as soon as one task ended in Err.
RunReturns_AbortOnErr ==
    /\ runPc = "await"
    /\ \/ \A h \in spawned : result[h] # "none"
       \/ \E h \in spawned : result[h] = "Err"
    /\ runPc' = "done"
    /\ runResult' = "Ok"
    /\ UNCHANGED <<cfgVars, probeVars, hostVars, mainVars>>
    /\ UNCHANGED <<hosts, idx, spawned, errors, taskVars>>

\* set.await completes when every task of the set has completed; Ok(()).
RunReturns ==
    /\ runPc = "await"
    /\ \A h \in spawned : result[h] # "none"
    /\ runPc' = "done"
    /\ runResult' = "Ok"
    /\ UNCHANGED <<cfgVars, probeVars, hostVars, mainVars>>
    /\ UNCHANGED <<hosts, idx, spawned, errors, taskVars>>

\* MainExit failing the process when a task of the set ended in Err.
MainExit_HostOutcome ==
    /\ runPc = "done"
    /\ saved' \in {"ok", "err"}
    /\ exit' = IF runResult = "Ok" /\ saved' = "ok" /\ errors = {}
                THEN "SUCCESS" ELSE "FAILURE"
    /\ runPc' = "exited"
    /\ UNCHANGED <<cfgVars, probeVars, hostVars>>
    /\ UNCHANGED <<hosts, runResult, idx, spawned, errors, taskVars>>

\* main_real after run_command, and main: on Ok `config.save()?`, on Err the
\* error of the run whatever save returns; ExitCode::FAILURE if main_real
\* returned Err, ExitCode::SUCCESS otherwise.
MainExit ==
    /\ runPc = "done"
    /\ saved' \in {"ok", "err"}
    /\ exit' = IF runResult = "Ok" /\ saved' = "ok" THEN "SUCCESS" ELSE "FAILURE"
    /\ runPc' = "exited"
    /\ UNCHANGED <<cfgVars, probeVars, hostVars>>
    /\ UNCHANGED <<hosts, runResult, idx, spawned, errors, taskVars>>

TaskStep(h) ==
    \/ StartTask(h) \/ Build(h) \/ Copy(h) \/ CopySleep(h)
    \/ Inspect(h) \/ PlaceMarker(h) \/ ScheduleRollbackRun(h)
    \/ SwitchProfile(h) \/ Activate(h) \/ Finalize(h) \/ StopTimer(h)
    \/ StopRunTimer(h) \/ PackageBuild(h)

Next ==
    \/ MainSetup
    \/ ListHosts
    \/ SpawnNext
    \/ AwaitSet
    \/ RunReturns
    \/ MainExit
    \/ \E h \in Hosts : TaskStep(h)

Spec == Init /\ [][Next]_vars

\* ------------------------------------------------- every command returns
\* main and run are never stopped, and every command and every sleep a task
\* awaits returns, after which the LocalSet polls the task again.
Dispatch == MainSetup \/ ListHosts \/ SpawnNext \/ AwaitSet \/ RunReturns \/ MainExit

\* A fleet whose first host is remote and whose other hosts are local: the
\* retry loop of the first interleaves with the steps of the others.
InitMixed ==
    /\ subcommand \in Subcommands
    /\ disable_rollback \in BOOLEAN
    /\ fail_fast = FALSE
    /\ privileged_build = FALSE
    /\ is_local = [h \in Hosts |-> h # 1]
    /\ should_skip \in [Hosts -> BOOLEAN]
    /\ marker = [h \in Hosts |-> "none"]
    /\ listing = <<>>
    /\ Fresh

SpecFair ==
    /\ InitMixed
    /\ [][Next]_vars
    /\ WF_vars(Dispatch)
    /\ \A h \in Hosts : WF_vars(TaskStep(h))

\* ------------------------------------------------------- one host, any flags
\* The same program deploying the first host only (the others are skipped),
\* with every combination of the flags, to a host that may still carry the
\* marker of an earlier run that never removed it.
InitTask ==
    /\ subcommand \in Subcommands
    /\ disable_rollback \in BOOLEAN
    /\ fail_fast \in BOOLEAN
    /\ privileged_build \in BOOLEAN
    /\ is_local \in {[h \in Hosts |-> h = 1 /\ b] : b \in BOOLEAN}
    /\ should_skip = [h \in Hosts |-> h # 1]
    /\ marker \in {[h \in Hosts |-> IF h = 1 THEN m ELSE "none"] : m \in {"none", "old"}}
    /\ listing = <<>>
    /\ Fresh

SpecTask == InitTask /\ [][Next]_vars

\* ------------------------------------------------- the driver gets killed
\* The driver process is killed while run awaits the set: no task is polled
\* any more.  A command that was in flight may or may not have run on its
\* host; `landed` are the hosts on which it has.
DriverKilled ==
    /\ runPc = "await"
    /\ runPc' = "killed"
    /\ \E landed \in SUBSET spawned :
          LET e(h) == IF h \in landed /\ LastOf(log[h]).res = "pending"
                        THEN [LastOf(log[h]) EXCEPT !.res = "ok"]
                        ELSE NoEntry
          IN /\ marker' = [h \in Hosts |-> MarkerAfter(marker[h], e(h))]
             /\ runTimer' = [h \in Hosts |-> RunTimerAfter(runTimer[h], e(h))]
             /\ rolledBack' = [h \in Hosts |->
                                 RolledBackAfter(rolledBack[h], marker[h], e(h))]
    /\ UNCHANGED <<cfgVars, probeVars, mainVars>>
    /\ UNCHANGED <<hosts, runResult, idx, spawned, errors, taskVars>>

\* The 3min of `systemd-run --on-active 3min --unit rollback-watchdog-run`
\* are over on host h: the timer starts rollback-watchdog.service.
WatchdogFires(h) ==
    /\ runTimer[h] = "armed"
    /\ runTimer' = [runTimer EXCEPT ![h] = "fired"]
    /\ rolledBack' = [rolledBack EXCEPT ![h] = @ \/ WatchdogReverts(marker[h])]
    /\ UNCHANGED <<cfgVars, probeVars, runVars, mainVars>>
    /\ UNCHANGED <<errors, marker, taskVars>>

NextWatchdog ==
    \/ Next
    \/ DriverKilled
    \/ \E h \in Hosts : WatchdogFires(h)

\* An armed timer of the host runs out, whatever the driver does.
SpecWatchdog ==
    /\ InitTask
    /\ [][NextWatchdog]_vars
    /\ \A h \in Hosts : WF_vars(WatchdogFires(h))

\* -------------------------------------------------- the inspector alone
\* Lines a listing handed to the inspector is made of.
LineSamples ==
    { <<"41", "2023-12-31", "11:00:00">>,
      <<"42", "2024-01-01", "12:00:00", "(current)">>,
      <<"17", "2023-11-30", "10:00:00", "(current)">>,
      <<"42", "2024-01-01", "12:00:00", "(current)", "extra">>,
      <<"abc", "2023-12-31", "11:00:00", "(current)">>,
      <<"4294967296", "2024-01-01", "12:00:00", "(current)">>,
      <<"42", "2024-01-01", "12:00:00", "(old)">>,
      <<"42", "2024-01-01">>,
      <<"17">>,
      <<>> }

ListingSamples == UNION {[1..n -> LineSamples] : n \in 0..MaxListingLines}

InitInspector ==
    /\ subcommand = "Switch"
    /\ disable_rollback = FALSE
    /\ fail_fast = FALSE
    /\ privileged_build = FALSE
    /\ is_local = [h \in Hosts |-> FALSE]
    /\ should_skip = [h \in Hosts |-> FALSE]
    /\ marker = [h \in Hosts |-> "none"]
    /\ listing \in ListingSamples
    /\ Fresh

\* get_current_generation is applied to the stdout `listing` of a
\* --list-generations that succeeded.
Probe ==
    /\ inspected = NotInspected
    /\ inspected' = get_current_generation([ok |-> TRUE, data |-> listing])
    /\ UNCHANGED <<cfgVars, hostVars, runVars, errors, mainVars, taskVars, listing>>

SpecInspector == InitInspector /\ [][Probe]_vars

\* ============================================================== properties
\* Positions of the log of h, and what was issued at them.
Entries(h) == 1..Len(log[h])

IssuedAt(h, i, c) == log[h][i].cmd = c

Issued(h, c) == \E i \in Entries(h) : IssuedAt(h, i, c)

Succeeded(h, c) == \E i \in Entries(h) : IssuedAt(h, i, c) /\ log[h][i].res = "ok"

Terminal(h) == result[h] # "none"

\* The run is an Upload with a mode, and rollback is enabled.
RollbackRun == action.kind = "Upload" /\ mode # "None" /\ ~disable_rollback

\* The Build phase of h succeeded: nix build returned Ok and its out-link was
\* canonicalized.
BuildSucceeded(h) == Succeeded(h, NixBuildCmd(action)) /\ built[h] = "<built>"

\* The Upload phase of h succeeded: a nix copy returned Ok, or the host is
\* local and the phase was skipped.
UploadSucceeded(h) == BuildSucceeded(h) /\ (is_local[h] \/ Succeeded(h, NixCopyCmd))

\* h entered Arm Rollback: its first command was started.
ReachedArm(h) == RollbackRun /\ Issued(h, ListGenerationsCmd)

\* The Generation Inspector of h has returned an error.
InspectionFailed(h) ==
    /\ \E i \in Entries(h) : IssuedAt(h, i, ListGenerationsCmd) /\ log[h][i].res # "pending"
    /\ generation[h] = NoGeneration

\* The commands of the forward-progress phases, and the ones after Upload
\* whose failure latches.
IsForward(c) == c = SetProfileCmd \/ c.prog = "<built>/bin/switch-to-configuration"

IsMarkerWrite(c) == c.prog = "sh"

\* C1: every host of an Upload run with a mode and rollback enabled that
\* reached Arm has, when its task ends, issued exactly one of the marker
\* removal and the rollback trigger.
C1_ExactlyOneFinalize ==
    \A h \in Hosts :
        (Terminal(h) /\ ReachedArm(h)) =>
            (Issued(h, RemoveMarkerCmd) # Issued(h, StartRollbackServiceCmd))

\* C2: a forward-progress command (SetProfile, Activate) is issued on a host
\* only while `failed` is clear and after every earlier command of the run
\* succeeded; with rollback enabled that includes the marker placement and,
\* for Test and Switch, the watchdog scheduling; Activate never follows a
\* failed SetProfile.
C2_ForwardState ==
    \A h \in Hosts : \A i \in Entries(h) :
        IsForward(log[h][i].cmd) =>
            /\ \A j \in 1..(i - 1) :
                  log[h][j].cmd # SleepCmd /\ log[h][j].cmd # NixCopyCmd
                      => log[h][j].res = "ok"
            /\ (log[h][i].res = "pending" => ~failed[h])
            /\ ~disable_rollback =>
                  /\ \E j \in 1..(i - 1) :
                        IsMarkerWrite(log[h][j].cmd) /\ log[h][j].res = "ok"
                  /\ should_schedule_rollback_run(mode) =>
                        \E j \in 1..(i - 1) :
                           IssuedAt(h, j, ScheduleWatchdogCmd) /\ log[h][j].res = "ok"
            /\ log[h][i].cmd # SetProfileCmd =>
                  \A j \in 1..(i - 1) :
                     IssuedAt(h, j, SetProfileCmd) => log[h][j].res = "ok"

\* C2, as a property of every step: the state part above, and the latch is
\* never cleared once set.
C2_ForwardOnlyWhileLatchClear ==
    [][C2_ForwardState' /\ \A h \in Hosts : failed[h] => failed'[h]]_vars

\* C2 witness: a Switch run with rollback enabled has issued Activate after
\* the marker, the watchdog run and SetProfile succeeded, while another
\* command of the host latched a failure and Finalize triggered the rollback.
C2_Witness ==
    \E h \in Hosts :
        /\ ~disable_rollback /\ mode = "Switch"
        /\ Succeeded(h, SetProfileCmd)
        /\ Issued(h, ActivateCmd(mode))
        /\ failed[h]
        /\ Issued(h, StartRollbackServiceCmd)

\* C3: the Upload task returns Ok(()) if and only if Build and Upload
\* succeeded; Err only from a build or an upload failure.
C3_OkIffBuildAndUpload ==
    \A h \in Hosts :
        (Terminal(h) /\ action.kind = "Upload") =>
            (result[h] = "Ok" <=> UploadSucceeded(h))

\* C4: when the Generation Inspector fails in Arm Rollback the task does not
\* abort: it latches `failed`, issues neither SetProfile nor Activate, and
\* still runs Finalize (the rollback trigger) and then Disarm.
C4_InspectFailureLatches ==
    \A h \in Hosts :
        (Terminal(h) /\ RollbackRun /\ InspectionFailed(h)) =>
            /\ result[h] = "Ok"
            /\ failed[h]
            /\ \A i \in Entries(h) : ~IsForward(log[h][i].cmd)
            /\ \E i, j \in Entries(h) :
                  /\ i < j
                  /\ IssuedAt(h, i, StartRollbackServiceCmd)
                  /\ IssuedAt(h, j, StopTimerCmd)

\* C5 witness: run returned Ok although one host's task ended in Err, and a
\* sibling's task ended in Ok.
C5_Witness ==
    /\ runPc = "done" /\ runResult = "Ok"
    /\ \E h, g \in spawned : result[h] = "Err" /\ result[g] = "Ok"

\* The dispatcher's bookkeeping once the hosts are listed: exactly the
\* non-skipped hosts are spawned, every Err is logged and nothing else, and
\* run returns only when every spawned task has ended, and then with Ok(()).
C5_DispatchState ==
    /\ runPc \in {"await", "done"} /\ hosts # <<>> =>
          spawned = {h \in Hosts : ~should_skip[h]}
    /\ errors = {h \in Hosts : result[h] = "Err"}
    /\ runPc = "done" /\ hosts # <<>> =>
          /\ runResult = "Ok"
          /\ \A h \in Hosts : ~should_skip[h] => Terminal(h)
    /\ runResult = "Err" => spawned = {}

\* C5: a task ending in Err neither aborts the set nor touches a sibling:
\* while run awaits the set every unfinished task can still be polled, a poll
\* of one host changes nothing of the others, every non-skipped host reaches
\* its terminal state before run returns, and run then returns Ok(()).
C5_ErrNeverAbortsSiblings ==
    [][ /\ C5_DispatchState'
        /\ runPc = "await" =>
              \A h \in spawned : ~Terminal(h) => ENABLED TaskStep(h)
        /\ \A h \in Hosts : TaskStep(h) =>
              \A g \in Hosts \ {h} :
                 /\ pc'[g] = pc[g] /\ log'[g] = log[g]
                 /\ result'[g] = result[g] /\ failed'[g] = failed[g]
                 /\ tries'[g] = tries[g] /\ built'[g] = built[g]
                 /\ generation'[g] = generation[g]
      ]_vars

\* The phase a command belongs to: Build 1, Upload (or the package arm) 2,
\* Arm 3, SwitchProfile 4, Activate 5, Finalize 6, Disarm 7.
PhaseOf(c) ==
    CASE c.prog = "nix" ->
            IF c.args[1] = "build" /\ c.args[3] = "--json" THEN 1 ELSE 2
      [] c.prog = "sleep" -> 2
      [] c.prog = "nix-env" ->
            IF c.args[3] = "--list-generations" THEN 3 ELSE 4
      [] c.prog = "sh" -> 3
      [] c.prog = "systemd-run" -> 3
      [] c.prog = "<built>/bin/switch-to-configuration" -> 5
      [] c.prog = "rm" -> 6
      [] c.prog = "systemctl" -> IF c.args[1] = "start" THEN 6 ELSE 7

\* C6: within one host every command but the last has returned before the
\* next was issued, the commands appear in phase order, no Arm command is
\* issued before the build succeeded, and no Disarm command before the
\* Finalize command has returned.
C6_PhasesSequential ==
    \A h \in Hosts : \A j \in Entries(h) :
        LET ph == PhaseOf(log[h][j].cmd) IN
        /\ j < Len(log[h]) =>
              /\ log[h][j].res # "pending"
              /\ ph <= PhaseOf(log[h][j + 1].cmd)
        /\ ph = 1 <=> j = 1
        /\ ph = 3 => log[h][1].res = "ok" /\ built[h] = "<built>"
        /\ ph = 7 =>
              \E i \in 1..(j - 1) :
                  PhaseOf(log[h][i].cmd) = 6 /\ log[h][i].res # "pending"

\* C6 witness: a host went through all seven phases.
C6_Witness ==
    \E h \in Hosts :
        /\ result[h] = "Ok"
        /\ {PhaseOf(log[h][i].cmd) : i \in Entries(h)} = 1..7

\* C7: with rollback enabled and a mode, every run that got past Upload has
\* issued `systemctl stop rollback-watchdog.timer` when the task ends, and
\* `systemctl stop rollback-watchdog-run.timer` exactly for Test and Switch;
\* the task then returns Ok(()).
C7_DisarmAlwaysRuns ==
    \A h \in Hosts :
        (Terminal(h) /\ RollbackRun /\ UploadSucceeded(h)) =>
            /\ Issued(h, StopTimerCmd)
            /\ Issued(h, StopRunTimerCmd) <=> should_schedule_rollback_run(mode)
            /\ result[h] = "Ok"

\* The positions of the nix copy attempts of h.
CopyAttempts(h) == {i \in Entries(h) : IssuedAt(h, i, NixCopyCmd)}

\* C8: nix copy is attempted at most 1 + 3 times; a failed attempt that is
\* retried is followed by one 5000 ms sleep and then the next attempt, and a
\* sleep follows nothing else; a successful attempt ends the loop; after the
\* 4th failure the task returns Err with nothing issued after the copy.
C8_UploadRetries ==
    \A h \in Hosts :
        LET n == Len(log[h])
            attempts == Cardinality(CopyAttempts(h))
        IN
        /\ attempts <= MaxCopyRetries + 1
        /\ is_local[h] => attempts = 0
        /\ \A i \in Entries(h) :
              /\ log[h][i].cmd = SleepCmd =>
                    /\ log[h][i].cmd.num = 5000
                    /\ i > 1 /\ log[h][i - 1] = [cmd |-> NixCopyCmd, res |-> "err"]
                    /\ i < n => log[h][i].res = "ok" /\ IssuedAt(h, i + 1, NixCopyCmd)
              /\ log[h][i].cmd = NixCopyCmd =>
                    /\ log[h][i].res = "ok" /\ i < n =>
                          PhaseOf(log[h][i + 1].cmd) > 2
                    /\ log[h][i].res = "err" /\ i < n => IssuedAt(h, i + 1, SleepCmd)
                    /\ log[h][i].res = "err" /\ i = n =>
                          /\ attempts = MaxCopyRetries + 1
                          /\ result[h] = "Err"

\* C8 witness: the 4th attempt failed and the task returned Err.
C8_Witness ==
    \E h \in Hosts :
        /\ Cardinality(CopyAttempts(h)) = 4
        /\ \A i \in CopyAttempts(h) : log[h][i].res = "err"
        /\ result[h] = "Err"

\* C9 as stated: Build is the first command of every task, and activation is
\* issued only after nix build and a nix copy of the run returned Ok.
C9_ActivateAfterBuildAndUpload ==
    \A h \in Hosts : \A i \in Entries(h) :
        /\ i = 1 <=> log[h][i].cmd = NixBuildCmd(action)
        /\ PhaseOf(log[h][i].cmd) = 5 =>
              /\ BuildSucceeded(h)
              /\ \E j \in 1..(i - 1) :
                    IssuedAt(h, j, NixCopyCmd) /\ log[h][j].res = "ok"

\* C9 amended: Build is the first command of every task and no task returns
\* Ok without it; activation is issued only after nix build returned Ok and,
\* unless the host is local (Upload is then skipped), after a nix copy of the
\* run returned Ok.
C9_ActivateAfterBuildAndUploadUnlessLocal ==
    \A h \in Hosts :
        /\ result[h] = "Ok" => BuildSucceeded(h)
        /\ \A i \in Entries(h) :
              /\ i = 1 <=> log[h][i].cmd = NixBuildCmd(action)
              /\ PhaseOf(log[h][i].cmd) = 5 =>
                    /\ BuildSucceeded(h)
                    /\ is_local[h] \/
                          \E j \in 1..(i - 1) :
                              IssuedAt(h, j, NixCopyCmd) /\ log[h][j].res = "ok"

\* C9 witness: activation was issued on a remote host after a retried copy.
C9_Witness ==
    \E h \in Hosts :
        /\ ~is_local[h]
        /\ tries[h] > 0
        /\ \E i \in Entries(h) : PhaseOf(log[h][i].cmd) = 5

\* C10: SetProfile is issued only for Boot and Switch, Activate only for Test
\* and Switch (with the mode's name), the watchdog run is scheduled only for
\* Test and Switch, and a plain upload issues nothing but Build and Copy.
C10_ModeGating ==
    \A h \in Hosts : \A i \in Entries(h) :
        LET c == log[h][i].cmd IN
        /\ c = SetProfileCmd => mode \in {"Boot", "Switch"}
        /\ c.prog = "<built>/bin/switch-to-configuration" =>
              mode \in {"Test", "Switch"} /\ c.args = <<name(mode)>>
        /\ c = ScheduleWatchdogCmd => mode \in {"Test", "Switch"}
        /\ subcommand = "Upload" => PhaseOf(c) <= 2

\* C10 witness: a Boot run set the profile and ended without activating.
C10_Witness ==
    \E h \in Hosts :
        /\ mode = "Boot" /\ result[h] = "Ok"
        /\ Succeeded(h, SetProfileCmd)
        /\ ~Issued(h, ScheduleWatchdogCmd)

\* The names of the rollback watchdog's units.
WatchdogUnits == {"rollback-watchdog.service", "rollback-watchdog-run",
                  "rollback-watchdog.timer", "rollback-watchdog-run.timer"}

\* Command c names a unit of the rollback watchdog.
TouchesWatchdog(c) == \E k \in 1..Len(c.args) : c.args[k] \in WatchdogUnits

\* Command c names the marker file.
TouchesMarker(c) ==
    \E k \in 1..Len(c.args) : c.args[k] = "/etc/fleet_rollback_marker"

\* No command of the log of h is a rollback-watchdog command, a generation
\* listing, or a command on the marker file.
C11_NoRollbackCommand ==
    \A h \in Hosts : \A i \in Entries(h) :
        LET c == log[h][i].cmd IN
        /\ ~TouchesWatchdog(c)
        /\ ~TouchesMarker(c)
        /\ c.prog \notin {"systemd-run", "systemctl", "sh", "rm"}
        /\ c # ListGenerationsCmd

\* C11: with disable_rollback=true, in every mode and whatever fails, no
\* command against rollback-watchdog* is issued (no systemd-run of
\* rollback-watchdog-run, no start of the service, no stop of a timer), no
\* generation listing is requested, and the marker file of the host is
\* neither written nor removed: no step changes it or the run timer.
C11_DisableRollbackTouchesNothing ==
    [][disable_rollback =>
          /\ C11_NoRollbackCommand'
          /\ marker' = marker
          /\ runTimer' = runTimer
          /\ rolledBack' = rolledBack]_vars

\* C11 witness: a switch with rollback disabled, on a host that carries a
\* marker, set the profile, failed to activate and returned Ok having issued
\* nothing after the activation.
C11_Witness ==
    \E h \in Hosts :
        /\ disable_rollback /\ mode = "Switch" /\ ~is_local[h]
        /\ marker[h] = "old"
        /\ result[h] = "Ok" /\ failed[h]
        /\ Succeeded(h, SetProfileCmd)
        /\ LastOf(log[h]) = [cmd |-> ActivateCmd("Switch"), res |-> "err"]

\* The log of h without its Upload phase (copy attempts and sleeps).
IsUpload(e) == e.cmd = NixCopyCmd \/ e.cmd = SleepCmd

WithoutUpload(h) == SelectSeq(log[h], LAMBDA e : ~IsUpload(e))

\* The logs a and b agree on the outcome of every command both have.
SameOutcomes(a, b) ==
    \A i \in 1..Len(a) : i <= Len(b) => a[i].res = b[i].res

\* C12: on a local host no nix copy (and no retry sleep) is ever issued, and
\* the rest of the sequence is that of a remote host: against any remote host
\* of the run, position by position, the local host issues the same command
\* as the remote one does outside Upload as long as the earlier commands had
\* the same outcomes, and when both tasks have ended with the same outcomes
\* (the local one past Build, the remote one past Upload) they have issued
\* equally many commands and returned the same result.
C12_LocalSkipsOnlyUpload ==
    \A h \in Hosts : is_local[h] =>
        /\ \A i \in Entries(h) : ~IsUpload(log[h][i])
        /\ \A g \in Hosts : ~is_local[g] =>
              LET a == log[h]
                  b == WithoutUpload(g)
              IN /\ \A i \in 1..Len(a) : i <= Len(b) =>
                       \/ a[i].cmd = b[i].cmd
                       \/ \E j \in 1..(i - 1) : a[j].res # b[j].res
                 /\ ( /\ Terminal(h) /\ Terminal(g)
                      /\ BuildSucceeded(h) /\ Succeeded(g, NixCopyCmd)
                      /\ SameOutcomes(a, b)
                      /\ (generation[h] = NoGeneration) = (generation[g] = NoGeneration) )
                    => Len(a) = Len(b) /\ result[h] = result[g]

\* C12 witness: a switch with rollback enabled went through every phase on a
\* local and on a remote host; the local log is the remote one without the
\* copy.
C12_Witness ==
    \E h, g \in Hosts :
        /\ is_local[h] /\ ~is_local[g]
        /\ mode = "Switch" /\ ~disable_rollback
        /\ result[h] = "Ok" /\ result[g] = "Ok"
        /\ Len(log[h]) = 9 /\ Len(log[g]) = 10
        /\ Succeeded(h, ActivateCmd("Switch"))
        /\ log[h] = WithoutUpload(g)

\* The driver was killed; the activation, the Finalize command, the first
\* Disarm command of h has been issued.
Killed == runPc = "killed"

ActivationIssued(h) ==
    \E i \in Entries(h) : log[h][i].cmd.prog = "<built>/bin/switch-to-configuration"

FinalizeIssued(h) == Issued(h, RemoveMarkerCmd) \/ Issued(h, StartRollbackServiceCmd)

DisarmIssued(h) == Issued(h, StopTimerCmd)

\* C13 as stated: whenever the driver is dead after it issued the activation
\* of a run with rollback enabled and before it issued a disarm command, the
\* marker is in place on the host and the timer armed by the run is pending.
C13_KilledBeforeDisarmIsGuarded ==
    \A h \in Hosts :
        (Killed /\ RollbackRun /\ ActivationIssued(h) /\ ~DisarmIssued(h)) =>
            marker[h] # "none" /\ runTimer[h] = "armed"

\* The activation of h was issued and its Finalize command was not.
BeforeFinalize(h) == RollbackRun /\ ActivationIssued(h) /\ ~FinalizeIssued(h)

\* C13 amended: from the moment the activation is issued until the Finalize
\* command is issued (rollback enabled) a marker is in place on the host and
\* the timer armed by the run is pending or has fired and rolled the host
\* back; a driver killed in that window leaves a host that is eventually
\* rolled back.
C13_KilledBeforeFinalizeRollsBack ==
    /\ [](\A h \in Hosts :
             BeforeFinalize(h) =>
                 /\ marker[h] # "none"
                 /\ runTimer[h] = "armed" \/ (runTimer[h] = "fired" /\ rolledBack[h]))
    /\ \A h \in Hosts : (Killed /\ BeforeFinalize(h)) ~> rolledBack[h]

\* C13 witness: the driver was killed while the activation was in flight, and
\* the timer of the run then fired and rolled the host back.
C13_Witness ==
    \E h \in Hosts :
        /\ Killed /\ BeforeFinalize(h)
        /\ LastOf(log[h]).res = "pending"
        /\ marker[h] = "new"
        /\ runTimer[h] = "fired" /\ rolledBack[h]

\* The marker command of h has returned.
MarkerWriteReturned(h) ==
    \E i \in Entries(h) : IsMarkerWrite(log[h][i].cmd) /\ log[h][i].res # "pending"

\* C14: when the host already carries a marker as a run with rollback
\* enabled places its own (the old marker is never replaced, so it is still
\* the one on the host), the placement fails, `failed` is latched, neither
\* SetProfile nor Activate is issued, and the run triggers the rollback
\* service before it ends.
C14_ExistingMarkerFailsPlacement ==
    \A h \in Hosts :
        (RollbackRun /\ marker[h] = "old" /\ MarkerWriteReturned(h)) =>
            /\ \A i \in Entries(h) :
                  IsMarkerWrite(log[h][i].cmd) => log[h][i].res = "err"
            /\ failed[h]
            /\ \A i \in Entries(h) : ~IsForward(log[h][i].cmd)
            /\ Terminal(h) => Issued(h, StartRollbackServiceCmd)

\* The commands of the log of h, in the order they were issued.
CommandsOf(h) == [i \in Entries(h) |-> log[h][i].cmd]

\* Every command of h that has returned has succeeded.
NothingFailed(h) == \A i \in Entries(h) : log[h][i].res # "err"

\* The sequence the claim gives for a switch, the current generation being id.
SwitchSequence(id) ==
    << Cmd("nix", <<"build", "--impure", "--json", "--no-link", "--option",
                    "log-lines", "200", "--out-link", "<out>",
                    "buildSystems", "toplevel", "<host>">>, privileged_build, NoNum),
       NixCopyCmd, ListGenerationsCmd, WriteMarkerCmd(id), ScheduleWatchdogCmd,
       SetProfileCmd,
       Cmd("<built>/bin/switch-to-configuration", <<"switch">>, TRUE, NoNum),
       RemoveMarkerCmd, StopTimerCmd, StopRunTimerCmd >>

\* C15: a switch of a remote host with rollback enabled on which nothing has
\* failed has issued a prefix of Build, Copy, ListGenerations,
\* WriteMarker(id of the current generation), ScheduleWatchdog, SetProfile,
\* Activate("switch"), RemoveMarker, StopTimer, StopRunTimer, and when the
\* task has ended, every command having succeeded, it has issued exactly
\* these ten and returned Ok.
C15_SwitchSequence ==
    \A h \in Hosts :
        (mode = "Switch" /\ ~disable_rollback /\ ~is_local[h] /\ NothingFailed(h)) =>
            LET n == Len(log[h])
                id == IF n > 3 THEN generation[h].id ELSE NoNum
            IN /\ n <= 10
               /\ CommandsOf(h) = SubSeq(SwitchSequence(id), 1, n)
               /\ n > 3 => generation[h].current /\ generation[h].id = 42
               /\ (Terminal(h) /\ built[h] = "<built>" /\ generation[h] # NoGeneration) =>
                     n = 10 /\ result[h] = "Ok"

\* C15 witness: such a switch ended Ok after its ten commands, leaving no
\* marker and no armed timer on the host.
C15_Witness ==
    \E h \in Hosts :
        /\ mode = "Switch" /\ ~disable_rollback /\ ~is_local[h]
        /\ result[h] = "Ok" /\ NothingFailed(h)
        /\ CommandsOf(h) = SwitchSequence(42)
        /\ marker[h] = "none" /\ runTimer[h] = "none" /\ ~rolledBack[h]

\* The positions of h at which an activation returned Err.
FailedActivations(h) ==
    {i \in Entries(h) :
        /\ log[h][i].cmd.prog = "<built>/bin/switch-to-configuration"
        /\ log[h][i].res = "err"}

\* What a run with rollback enabled issues after a failed activation.
AfterFailedActivation ==
    <<StartRollbackServiceCmd, StopTimerCmd, StopRunTimerCmd>>

\* C16: when the activation of a run with rollback enabled fails, `failed`
\* is latched, what follows is the rollback trigger, then the stop of
\* rollback-watchdog.timer, then the stop of rollback-watchdog-run.timer and
\* nothing else; the marker is not removed (no `rm -f`, and it is still on
\* the host); the task returns Ok; a test has issued no SetProfile, a switch
\* one that succeeded.
C16_ActivationFailure ==
    \A h \in Hosts : \A i \in FailedActivations(h) :
        RollbackRun =>
            LET n == Len(log[h]) - i IN
            /\ failed[h]
            /\ log[h][i].cmd = ActivateCmd(mode)
            /\ n <= 3
            /\ \A k \in 1..n : log[h][i + k].cmd = AfterFailedActivation[k]
            /\ ~Issued(h, RemoveMarkerCmd)
            /\ marker[h] # "none"
            /\ Terminal(h) => n = 3 /\ result[h] = "Ok"
            /\ mode = "Test" => ~Issued(h, SetProfileCmd)
            /\ mode = "Switch" => Succeeded(h, SetProfileCmd)

\* C16 witness: the activation of a test failed; the run triggered the
\* rollback, which reverted the host, stopped both timers and returned Ok.
C16_Witness ==
    \E h \in Hosts :
        /\ mode = "Test" /\ ~disable_rollback
        /\ FailedActivations(h) # {}
        /\ result[h] = "Ok"
        /\ Succeeded(h, StartRollbackServiceCmd) /\ rolledBack[h]
        /\ Succeeded(h, StopTimerCmd) /\ Succeeded(h, StopRunTimerCmd)
        /\ marker[h] = "new" /\ runTimer[h] = "none"

\* The decimal tokens of the samples that are a u32, with their value.
DecimalU32 == ("17" :> 17) @@ ("41" :> 41) @@ ("42" :> 42)

\* A line the claim has accepted: at least three tokens, the first a u32,
\* and a fourth token, if there is one, that is "(current)".
AcceptedLine(l) ==
    /\ Len(l) >= 3
    /\ l[1] \in DOMAIN DecimalU32
    /\ Len(l) >= 4 => l[4] = "(current)"

\* The positions of the accepted lines of `listing` that are marked current.
CurrentLines ==
    {i \in 1..Len(listing) : AcceptedLine(listing[i]) /\ Len(listing[i]) >= 4}

\* C17: get_current_generation, applied to a listing, skips the lines whose
\* id is no u32, that have fewer than three tokens or whose fourth token is
\* not "(current)", without failing for them; if exactly one accepted line is
\* marked current it returns that line's id, date and time; if several are it
\* fails with "bad list-generations output"; if none is it fails with
\* "failed to find generation".
C17_CurrentGeneration ==
    inspected # NotInspected =>
        LET n == Cardinality(CurrentLines) IN
        /\ n = 1 =>
              /\ inspected.ok
              /\ \A i \in CurrentLines :
                    inspected.gen = [id |-> DecimalU32[listing[i][1]],
                                     current |-> TRUE,
                                     datetime |-> <<listing[i][2], listing[i][3]>>]
        /\ n > 1 =>
              /\ ~inspected.ok
              /\ inspected.error = "bad list-generations output"
        /\ n = 0 =>
              /\ ~inspected.ok
              /\ inspected.error = "failed to find generation"

\* C17 witness: a listing with a line whose id is no number though marked
\* current, a line with another fourth token and the line of generation 17
\* marked current: generation 17 was returned.
C17_Witness ==
    /\ inspected.ok /\ inspected.gen.id = 17
    /\ inspected.gen.datetime = <<"2023-11-30", "10:00:00">>
    /\ \E i, j \in 1..Len(listing) :
          /\ listing[i] = <<"abc", "2023-12-31", "11:00:00", "(current)">>
          /\ listing[j] = <<"42", "2024-01-01", "12:00:00", "(old)">>

\* The process has exited; the deployment run has completed: run returned
\* after every task of the set ended.
Exited == runPc = "exited"

RunCompleted == runResult = "Ok"

\* C18 as stated: the exit code is 0 whenever the deployment run completed,
\* and nonzero only when the command line did not parse or the set-up failed,
\* no task having been started.
C18_ExitZeroWhenRunCompletes ==
    Exited =>
        /\ RunCompleted => exit = "SUCCESS"
        /\ exit # "SUCCESS" => ~RunCompleted /\ spawned = {}

\* C18 amended: the process exits with 0 exactly when the run completed and
\* config.save() then succeeded, whatever the tasks returned; it exits with
\* a nonzero code only when the command line did not parse, when the set-up
\* (NIX_ARGS, configuration, host list) failed before any task was started,
\* or when the run completed and saving the fleet data failed.
C18_ExitCodeIgnoresHostOutcomes ==
    /\ exit = "none" <=> ~Exited
    /\ Exited =>
          /\ exit = "SUCCESS" <=> (RunCompleted /\ saved = "ok")
          /\ RunCompleted => \A h \in Hosts : ~should_skip[h] => Terminal(h)
          /\ exit # "SUCCESS" =>
                \/ exit = "USAGE" /\ runResult = "none" /\ saved = "none"
                \/ exit = "FAILURE" /\ ~RunCompleted /\ spawned = {}
                \/ exit = "FAILURE" /\ RunCompleted /\ saved = "err"

\* C18 witness: every host of the fleet failed to deploy and the process
\* exited with 0.
C18_Witness ==
    /\ Exited /\ exit = "SUCCESS"
    /\ spawned = Hosts
    /\ errors = Hosts

\* The out-link and the attribute the claim gives for a package.
StablePath == IF subcommand = "SdImage" THEN "sd-image-<host>"
                                        ELSE "installation-cd-<host>"

PackageAttr == IF subcommand = "SdImage" THEN "sdImage" ELSE "installationCd"

\* Command c is a nix build.
IsNixBuild(c) == c.prog = "nix" /\ c.args[1] = "build"

\* The value of option opt in the arguments of c: the argument after it.
OptionOf(c, opt) ==
    {c.args[k + 1] : k \in {j \in 1..(Len(c.args) - 1) : c.args[j] = opt}}

\* What the log of a package task holds: nothing but nix builds, the build
\* of the package attribute into the temporary out-link and then at most one
\* build of it into the stable path, under sudo exactly with
\* --privileged-build, the second with --keep-going exactly without
\* --fail-fast; Ok exactly when both succeeded.
C19_PackageLog ==
    \A h \in Hosts :
        LET n == Len(log[h]) IN
        /\ n <= 2
        /\ \A i \in Entries(h) :
              LET c == log[h][i].cmd IN
              /\ IsNixBuild(c)
              /\ c # NixCopyCmd /\ c # ListGenerationsCmd /\ c # SetProfileCmd
              /\ ~IsMarkerWrite(c) /\ ~IsForward(c)
              /\ ~TouchesMarker(c) /\ ~TouchesWatchdog(c)
              /\ c.sudo = privileged_build
              /\ c.args[Len(c.args)] = "--keep-going" <=> (i = 2 /\ ~fail_fast)
              /\ \E k \in 1..(Len(c.args) - 2) :
                    c.args[k] = "buildSystems" /\ c.args[k + 1] = PackageAttr
                        /\ c.args[k + 2] = "<host>"
              /\ OptionOf(c, "--out-link") = {IF i = 1 THEN "<out>" ELSE StablePath}
        /\ n = 2 => log[h][1].res = "ok"
        /\ result[h] = "Ok" <=> (n = 2 /\ log[h][2].res = "ok")

\* C19: for SdImage and InstallationCd the task does nothing but build, the
\* last build going to sd-image-<host> / installation-cd-<host>: no nix copy,
\* no generation listing, no marker write or removal, no profile set, no
\* activation and no rollback-watchdog command, whatever the flags and the
\* outcome of the builds; no step changes the marker or the timer of the host.
C19_PackageOnlyBuilds ==
    [][action.kind = "Package" => C19_PackageLog' /\ hostVars' = hostVars]_vars

\* C19 witness: an installation cd was built with --privileged-build and
\* without --fail-fast and rollback enabled, for a remote host that carries a
\* marker, and the task returned Ok.
C19_Witness ==
    \E h \in Hosts :
        /\ subcommand = "InstallationCd" /\ privileged_build /\ ~fail_fast
        /\ ~disable_rollback /\ ~is_local[h] /\ marker[h] = "old"
        /\ result[h] = "Ok"
        /\ CommandsOf(h) = <<NixBuildCmd(action), PackageBuildCmd("InstallationCd")>>

\* The positions of h at which the marker command has returned.
MarkerWrites(h) ==
    {i \in Entries(h) : IsMarkerWrite(log[h][i].cmd) /\ log[h][i].res # "pending"}

\* C20: in a test or a switch with rollback enabled, once the generation
\* inspection has succeeded the marker command is issued, and when it has
\* returned, with Ok or with Err, the next command is the systemd-run of
\* rollback-watchdog-run; when the placement failed the run issues no forward
\* command, and by the time the task ends it has triggered the rollback
\* service and issued the stop of rollback-watchdog-run.timer, and it
\* returns Ok.
C20_ScheduleNotGatedOnLatch ==
    \A h \in Hosts :
        (~disable_rollback /\ mode \in {"Test", "Switch"}) =>
            /\ generation[h] # NoGeneration =>
                  \E i \in Entries(h) : IsMarkerWrite(log[h][i].cmd)
            /\ \A i \in MarkerWrites(h) :
                  /\ i < Len(log[h])
                  /\ log[h][i + 1].cmd = ScheduleWatchdogCmd
                  /\ log[h][i].res = "err" =>
                        /\ failed[h]
                        /\ \A j \in Entries(h) : ~IsForward(log[h][j].cmd)
                        /\ Terminal(h) =>
                              /\ Issued(h, StartRollbackServiceCmd)
                              /\ Issued(h, StopRunTimerCmd)
                              /\ result[h] = "Ok"

\* C20 witness: the marker placement failed on a host without a marker, the
\* systemd-run succeeded, and the rollback trigger has been issued: the
\* timer is armed on a host that has no marker.
C20_Witness ==
    \E h \in Hosts :
        /\ \E i \in MarkerWrites(h) : log[h][i].res = "err"
        /\ Succeeded(h, ScheduleWatchdogCmd)
        /\ Issued(h, StartRollbackServiceCmd)
        /\ marker[h] = "none" /\ runTimer[h] = "armed"

\* C21: every command and sleep returning, the retry loop of the upload is
\* bounded (at most 3 retries, 4 attempts), every spawned task reaches DONE
\* or FAIL, and run, once it has started, returns.
C21_TasksAndRunTerminate ==
    /\ [](\A h \in Hosts :
             tries[h] <= MaxCopyRetries /\ Len(log[h]) <= 2 * MaxCopyRetries + 10)
    /\ \A h \in Hosts : (pc[h] = "start") ~> (pc[h] \in {"DONE", "FAIL"})
    /\ (runPc = "list_hosts") ~> (runPc = "done" /\ runResult # "none")

\* C21 witness: run has returned after the task of the remote host used up
\* its retries and ended in FAIL while that of a local host ended in DONE.
C21_Witness ==
    /\ runPc = "done" /\ spawned = Hosts
    /\ \E h, g \in Hosts :
          /\ pc[h] = "FAIL" /\ tries[h] = MaxCopyRetries
          /\ Cardinality(CopyAttempts(h)) = MaxCopyRetries + 1
          /\ pc[g] = "DONE" /\ is_local[g]

====
